---- MODULE Spec2Model ----
(***************************************************************************)
(* Model of the MPU6050 register-level driver (src/src/lib.rs).            *)
(*                                                                         *)
(* The driver talks to the sensor through two bus capabilities (write and  *)
(* write_read) and one delay capability.  Every driver method is modelled  *)
(* as an operator over a call context `c` that carries the sensor's       *)
(* registers, the Device's fields, the log of bus/delay operations issued  *)
(* by the call and the call's result.  Rust's `?` is the test `IsOk`.      *)
(*                                                                         *)
(* f32 values are modelled as exact rationals <<num, den>> in lowest terms.*)
(* Option values are modelled as sequences: <<>> is None, <<x>> is Some(x).*)
(***************************************************************************)
EXTENDS Integers, Sequences, FiniteSets, TLC

VARIABLES
    builder,   \* Mpu6050Builder fields (Options)
    dev,       \* Option of the Mpu6050 fields
    regs,      \* the sensor's writable registers: address -> byte
    call,      \* the last method call: [op, arg]
    log,       \* bus and delay operations issued by the last call, in order
    result,    \* what the last call returned
    ncalls,    \* number of method calls made on the Device
    thr        \* per-thread state of the concurrent bit-field setters

vars == <<builder, dev, regs, call, log, result, ncalls, thr>>

(***************************************************************************)
(* Bounds of the model.                                                    *)
(***************************************************************************)
\* method calls made on one Device in one behaviour
MaxCalls == 2
\* calls made on one Device in SpecConfig, init included
MaxConfigCalls == 3

Byte == 0..255

None == <<>>
Some(x) == <<x>>

(***************************************************************************)
(* device.rs: register map, bit-field locations, enumerations, tables.     *)
(***************************************************************************)
DEFAULT_SLAVE_ADDR == 104
WHOAMI == 117
PWR_MGMT_1_ADDR == 107
PWR_MGMT_1_DEVICE_RESET == 7
PWR_MGMT_1_SLEEP == 6
PWR_MGMT_1_TEMP_DIS == 3
PWR_MGMT_1_CLKSEL == [bit |-> 2, length |-> 3]
ACCEL_CONFIG_ADDR == 28
ACCEL_CONFIG_XA_ST == 7
ACCEL_CONFIG_YA_ST == 6
ACCEL_CONFIG_ZA_ST == 5
ACCEL_CONFIG_FS_SEL == [bit |-> 4, length |-> 2]
ACCEL_CONFIG_ACCEL_HPF == [bit |-> 2, length |-> 3]
GYRO_CONFIG_ADDR == 27
GYRO_CONFIG_FS_SEL == [bit |-> 4, length |-> 2]
INT_PIN_CFG_ADDR == 55
INT_ENABLE_ADDR == 56
INT_STATUS_ADDR == 58
INT_STATUS_MOT_INT == 6
MOT_THR == 31
MOT_DUR == 32
ACC_REGX_H == 59
TEMP_OUT_H == 65
GYRO_REGX_H == 67

\* AccelRange { G2 = 0, G4, G8, G16 } and GyroRange { D250 = 0, D500, D1000, D2000 }
AccelRange == 0..3
GyroRange == 0..3
G2 == 0
D250 == 0
\* ACCEL_HPF modes and CLKSEL sources are 3-bit codes
ACCEL_HPF == {0, 1, 2, 3, 4, 7}
ACCEL_HPF_RESET == 0
CLKSEL == 0..7

\* sensitivity tables, LSB per g and LSB per degree/second
ACCEL_SENS == << <<16384, 1>>, <<8192, 1>>, <<4096, 1>>, <<2048, 1>> >>
GYRO_SENS == << <<131, 1>>, <<131, 2>>, <<164, 5>>, <<82, 5>> >>
AccelRange_sensitivity(range) == ACCEL_SENS[range + 1]
GyroRange_sensitivity(range) == GYRO_SENS[range + 1]

Vec3A_ZERO == << <<0, 1>>, <<0, 1>>, <<0, 1>> >>

(***************************************************************************)
(* bits.rs: bit-field primitives on one byte.                              *)
(***************************************************************************)
RECURSIVE Pow2(_)
Pow2(n) == IF n = 0 THEN 1 ELSE 2 * Pow2(n - 1)

get_bit(byte, n) == (byte \div Pow2(n)) % 2

set_bit(byte, n, enable) ==
    IF enable
    THEN IF get_bit(byte, n) = 1 THEN byte ELSE byte + Pow2(n)
    ELSE IF get_bit(byte, n) = 1 THEN byte - Pow2(n) ELSE byte

\* the run is bits [start-length+1 .. start]
get_bits(byte, start, length) ==
    (byte \div Pow2(start - length + 1)) % Pow2(length)

set_bits(byte, start, length, data) ==
    LET shift == start - length + 1
        old   == get_bits(byte, start, length)
    IN  byte - old * Pow2(shift) + (data % Pow2(length)) * Pow2(shift)

(***************************************************************************)
(* Results: Ok(v), Err(Mpu6050Error::I2c(e)), Err(InvalidChipId(b)).       *)
(***************************************************************************)
Ok(v) == [kind |-> "Ok", e |-> "none", v |-> v]
ErrI2c(e) == [kind |-> "I2c", e |-> e, v |-> 0]
ErrInvalidChipId(b) == [kind |-> "InvalidChipId", e |-> "none", v |-> b]
Unit == <<>>

TransportErrors == {"Nack", "ArbitrationLoss"}

(***************************************************************************)
(* The bus and delay capabilities (embedded_hal Write, WriteRead, DelayMs) *)
(* as a simulated sensor: a write of [reg, byte] stores byte in a writable *)
(* register; a write_read of [reg] returns n consecutive registers; the    *)
(* transaction number c.failAt of the call fails with c.err and has no     *)
(* effect.  Registers the sensor produces itself (identity, status, data)  *)
(* are read from c.hw, the values the hardware holds during the call.      *)
(***************************************************************************)
RegValue(c, r) ==
    IF r \in DOMAIN c.regs THEN c.regs[r]
    ELSE IF r \in DOMAIN c.hw THEN c.hw[r]
    ELSE 0

Fails(c) == c.tx + 1 = c.failAt

WriteEntry(addr, bytes, err) ==
    [t |-> "write", addr |-> addr, bytes |-> bytes, rd |-> <<>>, err |-> err]
ReadEntry(addr, bytes, rd, err) ==
    [t |-> "write_read", addr |-> addr, bytes |-> bytes, rd |-> rd, err |-> err]
DelayEntry(ms) ==
    [t |-> "delay_ms", addr |-> 0, bytes |-> <<ms>>, rd |-> <<>>, err |-> "none"]

i2c_write(c, addr, bytes) ==
    IF Fails(c)
    THEN [c EXCEPT !.tx = c.tx + 1,
                   !.log = Append(c.log, WriteEntry(addr, bytes, c.err)),
                   !.res = ErrI2c(c.err)]
    ELSE [c EXCEPT !.tx = c.tx + 1,
                   !.log = Append(c.log, WriteEntry(addr, bytes, "none")),
                   !.regs = IF bytes[1] \in DOMAIN c.regs
                            THEN [c.regs EXCEPT ![bytes[1]] = bytes[2]]
                            ELSE c.regs,
                   !.res = Ok(Unit)]

i2c_write_read(c, addr, bytes, n) ==
    IF Fails(c)
    THEN [c EXCEPT !.tx = c.tx + 1,
                   !.log = Append(c.log, ReadEntry(addr, bytes, <<>>, c.err)),
                   !.res = ErrI2c(c.err)]
    ELSE LET rd == [i \in 1..n |-> RegValue(c, bytes[1] + i - 1)]
         IN  [c EXCEPT !.tx = c.tx + 1,
                       !.log = Append(c.log, ReadEntry(addr, bytes, rd, "none")),
                       !.buf = rd,
                       !.res = Ok(Unit)]

delay_ms(c, ms) == [c EXCEPT !.log = Append(c.log, DelayEntry(ms))]

IsOk(c) == c.res.kind = "Ok"
Return(c, v) == [c EXCEPT !.res = Ok(v)]

(***************************************************************************)
(* Register access layer (lib.rs 451-513).                                 *)
(***************************************************************************)

\* write_byte that tries a failed write once more
write_byte_retry(c, reg, byte) ==
    LET c1 == i2c_write(c, c.dev.slave_addr, <<reg, byte>>)
    IN  IF IsOk(c1) THEN c1
        ELSE i2c_write([c1 EXCEPT !.res = Ok(Unit)], c.dev.slave_addr,
                       <<reg, byte>>)

write_byte(c, reg, byte) ==
    i2c_write(c, c.dev.slave_addr, <<reg, byte>>)

read_bytes(c, reg, n) ==
    i2c_write_read(c, c.dev.slave_addr, <<reg>>, n)

read_byte(c, reg) ==
    LET c1 == i2c_write_read(c, c.dev.slave_addr, <<reg>>, 1)
    IN  IF IsOk(c1) THEN Return(c1, c1.buf[1]) ELSE c1


\* write_bit that sets the bit whatever `enable` is
write_bit_always_sets(c, reg, bit_n, enable) ==
    LET c1 == read_bytes(c, reg, 1)
    IN  IF IsOk(c1)
        THEN write_byte(c1, reg, set_bit(c1.buf[1], bit_n, TRUE))
        ELSE c1

write_bit(c, reg, bit_n, enable) ==
    LET c1 == read_bytes(c, reg, 1)
    IN  IF IsOk(c1)
        THEN write_byte(c1, reg, set_bit(c1.buf[1], bit_n, enable))
        ELSE c1


\* write_bits that sets the field in a zeroed buffer, not in the byte read
write_bits_unmerged(c, reg, start_bit, length, data) ==
    LET c1 == read_bytes(c, reg, 1)
    IN  IF IsOk(c1)
        THEN write_byte(c1, reg, set_bits(0, start_bit, length, data))
        ELSE c1

write_bits(c, reg, start_bit, length, data) ==
    LET c1 == read_bytes(c, reg, 1)
    IN  IF IsOk(c1)
        THEN write_byte(c1, reg, set_bits(c1.buf[1], start_bit, length, data))
        ELSE c1

read_bit(c, reg, bit_n) ==
    LET c1 == read_bytes(c, reg, 1)
    IN  IF IsOk(c1) THEN Return(c1, get_bit(c1.buf[1], bit_n)) ELSE c1

read_bits(c, reg, start_bit, length) ==
    LET c1 == read_bytes(c, reg, 1)
    IN  IF IsOk(c1)
        THEN Return(c1, get_bits(c1.buf[1], start_bit, length))
        ELSE c1

(***************************************************************************)
(* Configuration and initialization (lib.rs 176-382).                      *)
(***************************************************************************)
wake(c) ==
    LET c1 == write_byte(c, PWR_MGMT_1_ADDR, 1)
    IN  IF IsOk(c1) THEN Return(delay_ms(c1, 100), Unit) ELSE c1

set_clock_source(c, source) ==
    write_bits(c, PWR_MGMT_1_ADDR, PWR_MGMT_1_CLKSEL.bit,
               PWR_MGMT_1_CLKSEL.length, source)

get_clock_source(c) ==
    read_bits(c, PWR_MGMT_1_ADDR, PWR_MGMT_1_CLKSEL.bit,
              PWR_MGMT_1_CLKSEL.length)


\* verify comparing the identity byte with the register's address
verify_vs_register_addr(c) ==
    LET c1 == read_byte(c, WHOAMI)
    IN  IF ~IsOk(c1) THEN c1
        ELSE IF c1.res.v # WHOAMI
             THEN [c1 EXCEPT !.res = ErrInvalidChipId(c1.res.v)]
             ELSE Return(c1, Unit)

verify(c) ==
    LET c1 == read_byte(c, WHOAMI)
    IN  IF ~IsOk(c1) THEN c1
        ELSE IF c1.res.v # DEFAULT_SLAVE_ADDR
             THEN [c1 EXCEPT !.res = ErrInvalidChipId(c1.res.v)]
             ELSE Return(c1, Unit)

set_accel_hpf(c, mode) ==
    write_bits(c, ACCEL_CONFIG_ADDR, ACCEL_CONFIG_ACCEL_HPF.bit,
               ACCEL_CONFIG_ACCEL_HPF.length, mode)

\* ACCEL_HPF::from(mode): the mode with that code; a code that is no mode's
\* (5, 6) falls to the catch-all arm, the reset mode
ACCEL_HPF_from(mode) ==
    IF mode \in ACCEL_HPF
    THEN Ok(mode)
    ELSE Ok(ACCEL_HPF_RESET)

get_accel_hpf(c) ==
    LET c1 == read_bits(c, ACCEL_CONFIG_ADDR, ACCEL_CONFIG_ACCEL_HPF.bit,
                        ACCEL_CONFIG_ACCEL_HPF.length)
    IN  IF IsOk(c1) THEN [c1 EXCEPT !.res = ACCEL_HPF_from(c1.res.v)] ELSE c1

set_gyro_range(c, range) ==
    LET c1 == write_bits(c, GYRO_CONFIG_ADDR, GYRO_CONFIG_FS_SEL.bit,
                         GYRO_CONFIG_FS_SEL.length, range)
    IN  IF IsOk(c1)
        THEN Return([c1 EXCEPT !.dev.gyro_sensitivity =
                                   GyroRange_sensitivity(range)], Unit)
        ELSE c1

get_gyro_range(c) ==
    read_bits(c, GYRO_CONFIG_ADDR, GYRO_CONFIG_FS_SEL.bit,
              GYRO_CONFIG_FS_SEL.length)


\* set_accel_range caching the divisor from the gyro table
set_accel_range_gyro_table(c, range) ==
    LET c1 == write_bits(c, ACCEL_CONFIG_ADDR, ACCEL_CONFIG_FS_SEL.bit,
                         ACCEL_CONFIG_FS_SEL.length, range)
    IN  IF IsOk(c1)
        THEN Return([c1 EXCEPT !.dev.acc_sensitivity =
                                   GyroRange_sensitivity(range)], Unit)
        ELSE c1

\* set_accel_range caching the divisor before the register is written
set_accel_range_cache_first(c, range) ==
    LET c0 == [c EXCEPT !.dev.acc_sensitivity = AccelRange_sensitivity(range)]
        c1 == write_bits(c0, ACCEL_CONFIG_ADDR, ACCEL_CONFIG_FS_SEL.bit,
                         ACCEL_CONFIG_FS_SEL.length, range)
    IN  IF IsOk(c1) THEN Return(c1, Unit) ELSE c1

set_accel_range(c, range) ==
    LET c1 == write_bits(c, ACCEL_CONFIG_ADDR, ACCEL_CONFIG_FS_SEL.bit,
                         ACCEL_CONFIG_FS_SEL.length, range)
    IN  IF IsOk(c1)
        THEN Return([c1 EXCEPT !.dev.acc_sensitivity =
                                   AccelRange_sensitivity(range)], Unit)
        ELSE c1

get_accel_range(c) ==
    read_bits(c, ACCEL_CONFIG_ADDR, ACCEL_CONFIG_FS_SEL.bit,
              ACCEL_CONFIG_FS_SEL.length)


\* init configuring the accelerometer range before verifying the identity
init_range_before_verify(c) ==
    LET c1 == wake(c) IN
    IF ~IsOk(c1) THEN c1 ELSE
    LET c2 == set_accel_range(c1, G2) IN
    IF ~IsOk(c2) THEN c2 ELSE
    LET c3 == verify(c2) IN
    IF ~IsOk(c3) THEN c3 ELSE
    LET c4 == set_gyro_range(c3, D250) IN
    IF ~IsOk(c4) THEN c4 ELSE
    LET c5 == set_accel_hpf(c4, ACCEL_HPF_RESET) IN
    IF ~IsOk(c5) THEN c5 ELSE Return(c5, Unit)

\* init putting the sensor back to sleep when the identity does not match
init_sleep_on_mismatch(c) ==
    LET c1 == wake(c) IN
    IF ~IsOk(c1) THEN c1 ELSE
    LET c2 == verify(c1) IN
    IF c2.res.kind = "InvalidChipId"
    THEN [write_byte(c2, PWR_MGMT_1_ADDR, 64) EXCEPT !.res = c2.res] ELSE
    IF ~IsOk(c2) THEN c2 ELSE
    LET c3 == set_accel_range(c2, G2) IN
    IF ~IsOk(c3) THEN c3 ELSE
    LET c4 == set_gyro_range(c3, D250) IN
    IF ~IsOk(c4) THEN c4 ELSE
    LET c5 == set_accel_hpf(c4, ACCEL_HPF_RESET) IN
    IF ~IsOk(c5) THEN c5 ELSE Return(c5, Unit)

\* init writing the range fields without refreshing the cached divisors
init_keeps_cached_ranges(c) ==
    LET c1 == wake(c) IN
    IF ~IsOk(c1) THEN c1 ELSE
    LET c2 == verify(c1) IN
    IF ~IsOk(c2) THEN c2 ELSE
    LET c3 == write_bits(c2, ACCEL_CONFIG_ADDR, ACCEL_CONFIG_FS_SEL.bit,
                         ACCEL_CONFIG_FS_SEL.length, G2) IN
    IF ~IsOk(c3) THEN c3 ELSE
    LET c4 == write_bits(c3, GYRO_CONFIG_ADDR, GYRO_CONFIG_FS_SEL.bit,
                         GYRO_CONFIG_FS_SEL.length, D250) IN
    IF ~IsOk(c4) THEN c4 ELSE
    LET c5 == set_accel_hpf(c4, ACCEL_HPF_RESET) IN
    IF ~IsOk(c5) THEN c5 ELSE Return(c5, Unit)

init(c) ==
    LET c1 == wake(c) IN
    IF ~IsOk(c1) THEN c1 ELSE
    LET c2 == verify(c1) IN
    IF ~IsOk(c2) THEN c2 ELSE
    LET c3 == set_accel_range(c2, G2) IN
    IF ~IsOk(c3) THEN c3 ELSE
    LET c4 == set_gyro_range(c3, D250) IN
    IF ~IsOk(c4) THEN c4 ELSE
    LET c5 == set_accel_hpf(c4, ACCEL_HPF_RESET) IN
    IF ~IsOk(c5) THEN c5 ELSE Return(c5, Unit)


\* setup_motion_detection enabling the interrupt before the thresholds
setup_motion_detection_enable_first(c) ==
    LET c1 == write_byte(c, 107, 0) IN
    IF ~IsOk(c1) THEN c1 ELSE
    LET c2 == write_byte(c1, INT_PIN_CFG_ADDR, 32) IN
    IF ~IsOk(c2) THEN c2 ELSE
    LET c3 == write_byte(c2, ACCEL_CONFIG_ADDR, 1) IN
    IF ~IsOk(c3) THEN c3 ELSE
    LET c4 == write_byte(c3, INT_ENABLE_ADDR, 64) IN
    IF ~IsOk(c4) THEN c4 ELSE
    LET c5 == write_byte(c4, MOT_THR, 10) IN
    IF ~IsOk(c5) THEN c5 ELSE
    LET c6 == write_byte(c5, MOT_DUR, 40) IN
    IF ~IsOk(c6) THEN c6 ELSE
    LET c7 == write_byte(c6, 105, 21) IN
    IF ~IsOk(c7) THEN c7 ELSE Return(c7, Unit)

\* setup_motion_detection not checking the result of the threshold write
setup_motion_detection_unchecked_threshold(c) ==
    LET c1 == write_byte(c, 107, 0) IN
    IF ~IsOk(c1) THEN c1 ELSE
    LET c2 == write_byte(c1, INT_PIN_CFG_ADDR, 32) IN
    IF ~IsOk(c2) THEN c2 ELSE
    LET c3 == write_byte(c2, ACCEL_CONFIG_ADDR, 1) IN
    IF ~IsOk(c3) THEN c3 ELSE
    LET c4 == write_byte(c3, MOT_THR, 10) IN
    LET c5 == write_byte(c4, MOT_DUR, 40) IN
    IF ~IsOk(c5) THEN c5 ELSE
    LET c6 == write_byte(c5, 105, 21) IN
    IF ~IsOk(c6) THEN c6 ELSE
    LET c7 == write_byte(c6, INT_ENABLE_ADDR, 64) IN
    IF ~IsOk(c7) THEN c7 ELSE Return(c7, Unit)

setup_motion_detection(c) ==
    LET c1 == write_byte(c, 107, 0) IN
    IF ~IsOk(c1) THEN c1 ELSE
    LET c2 == write_byte(c1, INT_PIN_CFG_ADDR, 32) IN
    IF ~IsOk(c2) THEN c2 ELSE
    LET c3 == write_byte(c2, ACCEL_CONFIG_ADDR, 1) IN
    IF ~IsOk(c3) THEN c3 ELSE
    LET c4 == write_byte(c3, MOT_THR, 10) IN
    IF ~IsOk(c4) THEN c4 ELSE
    LET c5 == write_byte(c4, MOT_DUR, 40) IN
    IF ~IsOk(c5) THEN c5 ELSE
    LET c6 == write_byte(c5, 105, 21) IN
    IF ~IsOk(c6) THEN c6 ELSE
    LET c7 == write_byte(c6, INT_ENABLE_ADDR, 64) IN
    IF ~IsOk(c7) THEN c7 ELSE Return(c7, Unit)

get_motion_detected(c) ==
    LET c1 == read_bit(c, INT_STATUS_ADDR, INT_STATUS_MOT_INT)
    IN  IF IsOk(c1) THEN Return(c1, c1.res.v # 0) ELSE c1

\* reset_device returning the cached sensitivities to the power-on ranges
reset_device_restores_defaults(c) ==
    LET c1 == write_bit(c, PWR_MGMT_1_ADDR, PWR_MGMT_1_DEVICE_RESET, TRUE)
    IN  IF IsOk(c1)
        THEN Return([delay_ms(c1, 100) EXCEPT
                        !.dev.acc_sensitivity = AccelRange_sensitivity(G2),
                        !.dev.gyro_sensitivity = GyroRange_sensitivity(D250)],
                    Unit)
        ELSE c1

reset_device(c) ==
    LET c1 == write_bit(c, PWR_MGMT_1_ADDR, PWR_MGMT_1_DEVICE_RESET, TRUE)
    IN  IF IsOk(c1) THEN Return(delay_ms(c1, 100), Unit) ELSE c1

set_sleep_enabled(c, enable) ==
    write_bit(c, PWR_MGMT_1_ADDR, PWR_MGMT_1_SLEEP, enable)

get_sleep_enabled(c) ==
    LET c1 == read_bit(c, PWR_MGMT_1_ADDR, PWR_MGMT_1_SLEEP)
    IN  IF IsOk(c1) THEN Return(c1, c1.res.v # 0) ELSE c1


\* set_temp_enabled writing `enable` itself into TEMP_DIS
set_temp_enabled_not_inverted(c, enable) ==
    write_bit(c, PWR_MGMT_1_ADDR, PWR_MGMT_1_TEMP_DIS, enable)

set_temp_enabled(c, enable) ==
    write_bit(c, PWR_MGMT_1_ADDR, PWR_MGMT_1_TEMP_DIS, ~enable)

get_temp_enabled(c) ==
    LET c1 == read_bit(c, PWR_MGMT_1_ADDR, PWR_MGMT_1_TEMP_DIS)
    IN  IF IsOk(c1) THEN Return(c1, c1.res.v = 0) ELSE c1

set_accel_x_self_test(c, enable) ==
    write_bit(c, ACCEL_CONFIG_ADDR, ACCEL_CONFIG_XA_ST, enable)

get_accel_x_self_test(c) ==
    LET c1 == read_bit(c, ACCEL_CONFIG_ADDR, ACCEL_CONFIG_XA_ST)
    IN  IF IsOk(c1) THEN Return(c1, c1.res.v # 0) ELSE c1

set_accel_y_self_test(c, enable) ==
    write_bit(c, ACCEL_CONFIG_ADDR, ACCEL_CONFIG_YA_ST, enable)

get_accel_y_self_test(c) ==
    LET c1 == read_bit(c, ACCEL_CONFIG_ADDR, ACCEL_CONFIG_YA_ST)
    IN  IF IsOk(c1) THEN Return(c1, c1.res.v # 0) ELSE c1

set_accel_z_self_test(c, enable) ==
    write_bit(c, ACCEL_CONFIG_ADDR, ACCEL_CONFIG_ZA_ST, enable)

get_accel_z_self_test(c) ==
    LET c1 == read_bit(c, ACCEL_CONFIG_ADDR, ACCEL_CONFIG_ZA_ST)
    IN  IF IsOk(c1) THEN Return(c1, c1.res.v # 0) ELSE c1

(***************************************************************************)
(* Sensor math (lib.rs 398-410).  i32 arithmetic; no value exceeds 65535.  *)
(***************************************************************************)

\* read_word_2c treating 0x8000 as positive
read_word_2c_off_by_one(byte) ==
    LET high == byte[1]
        low  == byte[2]
        word == (high * 256) + low
    IN  IF word > 32768 THEN -((65535 - word) + 1) ELSE word

read_word_2c(byte) ==
    LET high == byte[1]
        low  == byte[2]
        word == (high * 256) + low
    IN  IF word >= 32768 THEN -((65535 - word) + 1) ELSE word

\* exact rationals standing for f32 values (rounding is not modelled)
RECURSIVE GCD(_, _)
GCD(a, b) == IF b = 0 THEN a ELSE GCD(b, a % b)
Abs(x) == IF x < 0 THEN -x ELSE x
Rat(n, d) ==
    LET g == GCD(Abs(n), Abs(d))
    IN  IF d < 0 THEN <<-(n \div g), -(d \div g)>> ELSE <<n \div g, d \div g>>
RatAdd(p, q) == Rat(p[1] * q[2] + q[1] * p[2], p[2] * q[2])
RatMul(p, q) == Rat(p[1] * q[1], p[2] * q[2])
RatDiv(p, q) == Rat(p[1] * q[2], p[2] * q[1])
RatNeg(p) == <<-p[1], p[2]>>

TEMP_SENSITIVITY == <<340, 1>>
TEMP_OFFSET == <<3653, 100>>

read_rot(c, reg) ==
    LET c1 == read_bytes(c, reg, 6)
    IN  IF IsOk(c1)
        THEN Return(c1, << <<read_word_2c(SubSeq(c1.buf, 1, 2)), 1>>,
                           <<read_word_2c(SubSeq(c1.buf, 3, 4)), 1>>,
                           <<read_word_2c(SubSeq(c1.buf, 5, 6)), 1>> >>)
        ELSE c1

\* get_acc adding the offset to the raw reading, before the division
get_acc_offset_first(c) ==
    LET c1 == read_rot(c, ACC_REGX_H)
    IN  IF IsOk(c1)
        THEN Return(c1, [i \in 1..3 |->
                            RatDiv(RatAdd(c1.res.v[i], c1.dev.acc_offset[i]),
                                   c1.dev.acc_sensitivity)])
        ELSE c1

get_acc(c) ==
    LET c1 == read_rot(c, ACC_REGX_H)
    IN  IF IsOk(c1)
        THEN LET acc == [i \in 1..3 |->
                            RatDiv(c1.res.v[i], c1.dev.acc_sensitivity)]
             IN  Return(c1, [i \in 1..3 |->
                                RatAdd(acc[i], c1.dev.acc_offset[i])])
        ELSE c1

\* a gyro reading is pi180 * (pi / 180) + plus, per axis
get_gyro(c) ==
    LET c1 == read_rot(c, GYRO_REGX_H)
    IN  IF IsOk(c1)
        THEN Return(c1, [i \in 1..3 |->
                 [pi180 |-> RatMul(c1.res.v[i],
                                   RatDiv(<<1, 1>>, c1.dev.gyro_sensitivity)),
                  plus |-> c1.dev.gyro_offset[i]]])
        ELSE c1

\* get_temp reading the two temperature registers one byte at a time
get_temp_bytewise(c) ==
    LET c1 == read_byte(c, TEMP_OUT_H) IN
    IF ~IsOk(c1) THEN c1 ELSE
    LET c2 == read_byte(c1, TEMP_OUT_H + 1) IN
    IF ~IsOk(c2) THEN c2 ELSE
    LET raw_temp == <<read_word_2c(<<c1.res.v, c2.res.v>>), 1>>
    IN  Return(c2, RatAdd(RatDiv(raw_temp, TEMP_SENSITIVITY), TEMP_OFFSET))

get_temp(c) ==
    LET c1 == read_bytes(c, TEMP_OUT_H, 2)
    IN  IF IsOk(c1)
        THEN LET raw_temp == <<read_word_2c(SubSeq(c1.buf, 1, 2)), 1>>
             IN  Return(c1, RatAdd(RatDiv(raw_temp, TEMP_SENSITIVITY),
                                   TEMP_OFFSET))
        ELSE c1

\* the rotation Quat::from_euler(XYZ, a, b, 0.0) with
\* a = atan2(y, sqrt(x^2 + z^2)) and b = atan2(-x, sqrt(y^2 + z^2)); an angle
\* is kept as its arguments [num, hyp], hyp the pair under the square root
get_acc_angles(c) ==
    LET c1 == get_acc(c)
    IN  IF IsOk(c1)
        THEN LET acc == c1.res.v
             IN  Return(c1, [euler |-> "XYZ",
                             a |-> [num |-> acc[2], hyp |-> <<acc[1], acc[3]>>],
                             b |-> [num |-> RatNeg(acc[1]),
                                    hyp |-> <<acc[2], acc[3]>>],
                             c |-> <<0, 1>>])
        ELSE c1

(***************************************************************************)
(* Builder (lib.rs 90-160).                                                *)
(***************************************************************************)
unwrap_or(o, d) == IF o = None THEN d ELSE o[1]

Mpu6050Builder_new ==
    [i2c |-> None, slave_addr |-> None, acc_sensitivity |-> None,
     gyro_sensitivity |-> None, gyro_offset |-> None, acc_offset |-> None]

ErrNoI2cDeviceProvided ==
    [kind |-> "NoI2cDeviceProvided", e |-> "none", v |-> 0]


\* build demanding a slave address as well as a bus
build_requires_slave_addr(b) ==
    IF b.i2c = None \/ b.slave_addr = None
    THEN ErrNoI2cDeviceProvided
    ELSE Ok([i2c |-> b.i2c[1],
             slave_addr |-> unwrap_or(b.slave_addr, DEFAULT_SLAVE_ADDR),
             acc_sensitivity |->
                 IF b.acc_sensitivity = None THEN ACCEL_SENS[1]
                 ELSE AccelRange_sensitivity(b.acc_sensitivity[1]),
             gyro_sensitivity |->
                 IF b.gyro_sensitivity = None THEN GYRO_SENS[1]
                 ELSE GyroRange_sensitivity(b.gyro_sensitivity[1]),
             gyro_offset |-> unwrap_or(b.gyro_offset, Vec3A_ZERO),
             acc_offset |-> unwrap_or(b.acc_offset, Vec3A_ZERO)])

\* build keeping the default divisor whatever accelerometer range was chosen
build_ignores_acc_range(b) ==
    IF b.i2c = None
    THEN ErrNoI2cDeviceProvided
    ELSE Ok([i2c |-> b.i2c[1],
             slave_addr |-> unwrap_or(b.slave_addr, DEFAULT_SLAVE_ADDR),
             acc_sensitivity |-> ACCEL_SENS[1],
             gyro_sensitivity |->
                 IF b.gyro_sensitivity = None THEN GYRO_SENS[1]
                 ELSE GyroRange_sensitivity(b.gyro_sensitivity[1]),
             gyro_offset |-> unwrap_or(b.gyro_offset, Vec3A_ZERO),
             acc_offset |-> unwrap_or(b.acc_offset, Vec3A_ZERO)])

build(b) ==
    IF b.i2c = None
    THEN ErrNoI2cDeviceProvided
    ELSE Ok([i2c |-> b.i2c[1],
             slave_addr |-> unwrap_or(b.slave_addr, DEFAULT_SLAVE_ADDR),
             acc_sensitivity |->
                 IF b.acc_sensitivity = None THEN ACCEL_SENS[1]
                 ELSE AccelRange_sensitivity(b.acc_sensitivity[1]),
             gyro_sensitivity |->
                 IF b.gyro_sensitivity = None THEN GYRO_SENS[1]
                 ELSE GyroRange_sensitivity(b.gyro_sensitivity[1]),
             gyro_offset |-> unwrap_or(b.gyro_offset, Vec3A_ZERO),
             acc_offset |-> unwrap_or(b.acc_offset, Vec3A_ZERO)])

(***************************************************************************)
(* The sensor's writable registers and their power-on values (PWR_MGMT_1   *)
(* resets to 0x40, sleep set; every other register to 0).                  *)
(***************************************************************************)
WritableRegs ==
    {PWR_MGMT_1_ADDR, ACCEL_CONFIG_ADDR, GYRO_CONFIG_ADDR, INT_PIN_CFG_ADDR,
     INT_ENABLE_ADDR, MOT_THR, MOT_DUR, 105}

PowerOnRegs == [r \in WritableRegs |-> IF r = PWR_MGMT_1_ADDR THEN 64 ELSE 0]

\* registers as an earlier user of the sensor may have left them
StaleRegs == [r \in WritableRegs |-> 255]

\* bus handles a caller can pass to the builder
BusHandles == {"i2c-1"}
\* slave addresses and offsets a caller passes to the builder
SlaveAddrs == {104, 105}
Offsets == {Vec3A_ZERO, << <<1, 2>>, <<0, 1>>, <<-1, 4>> >>}

NoCall == [op |-> "none", arg |-> Unit]
Idle ==
    [pc |-> "idle", op |-> "none", reg |-> 0, a |-> <<>>, buf |-> 0,
     rd |-> 0, wr |-> 0]
Threads == {1, 2, 3}

(***************************************************************************)
(* A method call on the Device: the context the call starts from and the   *)
(* state it leaves.                                                        *)
(***************************************************************************)
Ctx(failAt, err, hw) ==
    [regs |-> regs, dev |-> dev[1], log |-> <<>>, res |-> Ok(Unit), tx |-> 0,
     buf |-> <<>>, failAt |-> failAt, err |-> err, hw |-> hw]

NoHw == <<>>

Finish(op, arg, c) ==
    /\ regs' = c.regs
    /\ dev' = Some(c.dev)
    /\ log' = c.log
    /\ result' = c.res
    /\ call' = [op |-> op, arg |-> arg]
    /\ ncalls' = ncalls + 1
    /\ UNCHANGED <<builder, thr>>

CanCall == dev # None /\ ncalls < MaxCalls

(***************************************************************************)
(* Inputs of a call: which transaction fails (0: none) and with what       *)
(* transport error, and what the sensor's own registers hold.              *)
(***************************************************************************)
\* n: the most transactions the called method can issue
Failures(n) ==
    {<<0, "none">>} \cup ((1..n) \X TransportErrors)

\* identity bytes the sensor at the other end of the bus may report
IdBytes == {104, 105, 0, 255}
\* contents of the interrupt status register
StatusBytes == {0, 64, 191}

(***************************************************************************)
(* One action per Device method.                                           *)
(***************************************************************************)
CallInitWith(ids) ==
    /\ CanCall
    /\ \E fl \in Failures(8), id \in ids :
         Finish("init", Unit, init(Ctx(fl[1], fl[2], WHOAMI :> id)))

CallInit == CallInitWith(IdBytes)

CallSetupMotionDetection ==
    /\ CanCall
    /\ \E fl \in Failures(7) :
         Finish("setup_motion_detection", Unit,
                setup_motion_detection(Ctx(fl[1], fl[2], NoHw)))

CallGetMotionDetected ==
    /\ CanCall
    /\ \E fl \in Failures(1), st \in StatusBytes :
         Finish("get_motion_detected", Unit,
                get_motion_detected(Ctx(fl[1], fl[2], INT_STATUS_ADDR :> st)))

CallSetClockSource ==
    /\ CanCall
    /\ \E fl \in Failures(2), source \in CLKSEL :
         Finish("set_clock_source", source,
                set_clock_source(Ctx(fl[1], fl[2], NoHw), source))

CallGetClockSource ==
    /\ CanCall
    /\ \E fl \in Failures(1) :
         Finish("get_clock_source", Unit,
                get_clock_source(Ctx(fl[1], fl[2], NoHw)))

CallSetAccelHpf ==
    /\ CanCall
    /\ \E fl \in Failures(2), mode \in ACCEL_HPF :
         Finish("set_accel_hpf", mode,
                set_accel_hpf(Ctx(fl[1], fl[2], NoHw), mode))

CallGetAccelHpf ==
    /\ CanCall
    /\ \E fl \in Failures(1) :
         Finish("get_accel_hpf", Unit,
                get_accel_hpf(Ctx(fl[1], fl[2], NoHw)))

CallSetGyroRange ==
    /\ CanCall
    /\ \E fl \in Failures(2), range \in GyroRange :
         Finish("set_gyro_range", range,
                set_gyro_range(Ctx(fl[1], fl[2], NoHw), range))

CallGetGyroRange ==
    /\ CanCall
    /\ \E fl \in Failures(1) :
         Finish("get_gyro_range", Unit,
                get_gyro_range(Ctx(fl[1], fl[2], NoHw)))

CallSetAccelRange ==
    /\ CanCall
    /\ \E fl \in Failures(2), range \in AccelRange :
         Finish("set_accel_range", range,
                set_accel_range(Ctx(fl[1], fl[2], NoHw), range))

CallGetAccelRange ==
    /\ CanCall
    /\ \E fl \in Failures(1) :
         Finish("get_accel_range", Unit,
                get_accel_range(Ctx(fl[1], fl[2], NoHw)))

\* The sensor may act on the reset bit (its registers return to their
\* power-on values) or, as a plain register store, keep what was written.
CallResetDevice ==
    /\ CanCall
    /\ \E fl \in Failures(2), hwreset \in BOOLEAN :
         LET c == reset_device(Ctx(fl[1], fl[2], NoHw))
         IN  Finish("reset_device", Unit,
                    IF IsOk(c) /\ hwreset
                    THEN [c EXCEPT !.regs = PowerOnRegs]
                    ELSE c)

CallSetSleepEnabled ==
    /\ CanCall
    /\ \E fl \in Failures(2), enable \in BOOLEAN :
         Finish("set_sleep_enabled", enable,
                set_sleep_enabled(Ctx(fl[1], fl[2], NoHw), enable))

CallGetSleepEnabled ==
    /\ CanCall
    /\ \E fl \in Failures(1) :
         Finish("get_sleep_enabled", Unit,
                get_sleep_enabled(Ctx(fl[1], fl[2], NoHw)))

CallSetTempEnabled ==
    /\ CanCall
    /\ \E fl \in Failures(2), enable \in BOOLEAN :
         Finish("set_temp_enabled", enable,
                set_temp_enabled(Ctx(fl[1], fl[2], NoHw), enable))

CallGetTempEnabled ==
    /\ CanCall
    /\ \E fl \in Failures(1) :
         Finish("get_temp_enabled", Unit,
                get_temp_enabled(Ctx(fl[1], fl[2], NoHw)))

CallSetAccelXSelfTest ==
    /\ CanCall
    /\ \E fl \in Failures(2), enable \in BOOLEAN :
         Finish("set_accel_x_self_test", enable,
                set_accel_x_self_test(Ctx(fl[1], fl[2], NoHw), enable))

CallGetAccelXSelfTest ==
    /\ CanCall
    /\ \E fl \in Failures(1) :
         Finish("get_accel_x_self_test", Unit,
                get_accel_x_self_test(Ctx(fl[1], fl[2], NoHw)))

CallSetAccelYSelfTest ==
    /\ CanCall
    /\ \E fl \in Failures(2), enable \in BOOLEAN :
         Finish("set_accel_y_self_test", enable,
                set_accel_y_self_test(Ctx(fl[1], fl[2], NoHw), enable))

CallGetAccelYSelfTest ==
    /\ CanCall
    /\ \E fl \in Failures(1) :
         Finish("get_accel_y_self_test", Unit,
                get_accel_y_self_test(Ctx(fl[1], fl[2], NoHw)))

CallSetAccelZSelfTest ==
    /\ CanCall
    /\ \E fl \in Failures(2), enable \in BOOLEAN :
         Finish("set_accel_z_self_test", enable,
                set_accel_z_self_test(Ctx(fl[1], fl[2], NoHw), enable))

CallGetAccelZSelfTest ==
    /\ CanCall
    /\ \E fl \in Failures(1) :
         Finish("get_accel_z_self_test", Unit,
                get_accel_z_self_test(Ctx(fl[1], fl[2], NoHw)))

\* what the sensor's data registers hold, from base address `base` on
DataBlocks ==
    {<<64, 0, 0, 0, 0, 0>>, <<255, 255, 128, 0, 127, 255>>,
     <<0, 131, 240, 0, 0, 1>>}
HwBlock(base, blk) == [r \in base..(base + Len(blk) - 1) |-> blk[r - base + 1]]

CallGetAcc ==
    /\ CanCall
    /\ \E fl \in Failures(1), blk \in DataBlocks :
         Finish("get_acc", Unit,
                get_acc(Ctx(fl[1], fl[2], HwBlock(ACC_REGX_H, blk))))

CallGetGyro ==
    /\ CanCall
    /\ \E fl \in Failures(1), blk \in DataBlocks :
         Finish("get_gyro", Unit,
                get_gyro(Ctx(fl[1], fl[2], HwBlock(GYRO_REGX_H, blk))))

CallGetTemp ==
    /\ CanCall
    /\ \E fl \in Failures(1), blk \in DataBlocks :
         Finish("get_temp", Unit,
                get_temp(Ctx(fl[1], fl[2],
                             HwBlock(TEMP_OUT_H, SubSeq(blk, 1, 2)))))

CallGetAccAngles ==
    /\ CanCall
    /\ \E fl \in Failures(1), blk \in DataBlocks :
         Finish("get_acc_angles", Unit,
                get_acc_angles(Ctx(fl[1], fl[2], HwBlock(ACC_REGX_H, blk))))

(***************************************************************************)
(* Spec: one Device, as build leaves it, and the method calls made on it.  *)
(***************************************************************************)
\* what the caller gave the builder before build
BuiltFrom ==
    {[Mpu6050Builder_new EXCEPT !.i2c = Some(h), !.acc_sensitivity = ag[1],
                                !.gyro_sensitivity = ag[2]] :
        h \in BusHandles,
        ag \in {<<None, None>>, <<Some(3), Some(2)>>}}

Init ==
    /\ builder \in BuiltFrom
    /\ dev = Some(build(builder).v)
    /\ regs \in {PowerOnRegs, StaleRegs}
    /\ call = [op |-> "build", arg |-> Unit]
    /\ log = <<>>
    /\ result = build(builder)
    /\ ncalls = 0
    /\ thr = [t \in Threads |-> Idle]

Next ==
    \/ CallInit
    \/ CallSetupMotionDetection
    \/ CallGetMotionDetected
    \/ CallSetClockSource
    \/ CallGetClockSource
    \/ CallSetAccelHpf
    \/ CallGetAccelHpf
    \/ CallSetGyroRange
    \/ CallGetGyroRange
    \/ CallSetAccelRange
    \/ CallGetAccelRange
    \/ CallResetDevice
    \/ CallSetSleepEnabled
    \/ CallGetSleepEnabled
    \/ CallSetTempEnabled
    \/ CallGetTempEnabled
    \/ CallSetAccelXSelfTest
    \/ CallGetAccelXSelfTest
    \/ CallSetAccelYSelfTest
    \/ CallGetAccelYSelfTest
    \/ CallSetAccelZSelfTest
    \/ CallGetAccelZSelfTest
    \/ CallGetAcc
    \/ CallGetGyro
    \/ CallGetTemp
    \/ CallGetAccAngles

Spec == Init /\ [][Next]_vars

(***************************************************************************)
(* SpecBuild: the builder's setters, called in any order, then build.      *)
(* build consumes the builder; `builder` keeps the fields it consumed.     *)
(***************************************************************************)
Building == call.op = "none"

BuilderI2c ==
    /\ Building
    /\ \E h \in BusHandles : builder' = [builder EXCEPT !.i2c = Some(h)]
    /\ UNCHANGED <<dev, regs, call, log, result, ncalls, thr>>

BuilderSlaveAddr ==
    /\ Building
    /\ \E a \in SlaveAddrs : builder' = [builder EXCEPT !.slave_addr = Some(a)]
    /\ UNCHANGED <<dev, regs, call, log, result, ncalls, thr>>

BuilderAccSensitivity ==
    /\ Building
    /\ \E r \in AccelRange :
         builder' = [builder EXCEPT !.acc_sensitivity = Some(r)]
    /\ UNCHANGED <<dev, regs, call, log, result, ncalls, thr>>

BuilderGyroSensitivity ==
    /\ Building
    /\ \E r \in GyroRange :
         builder' = [builder EXCEPT !.gyro_sensitivity = Some(r)]
    /\ UNCHANGED <<dev, regs, call, log, result, ncalls, thr>>

BuilderGyroOffset ==
    /\ Building
    /\ \E o \in Offsets : builder' = [builder EXCEPT !.gyro_offset = Some(o)]
    /\ UNCHANGED <<dev, regs, call, log, result, ncalls, thr>>

BuilderAccOffset ==
    /\ Building
    /\ \E o \in Offsets : builder' = [builder EXCEPT !.acc_offset = Some(o)]
    /\ UNCHANGED <<dev, regs, call, log, result, ncalls, thr>>

\* build also writing the chosen accelerometer range to the sensor
Build_writes_range ==
    /\ Building
    /\ result' = build(builder)
    /\ dev' = IF result'.kind = "Ok" THEN Some(result'.v) ELSE None
    /\ call' = [op |-> "build", arg |-> Unit]
    /\ IF result'.kind = "Ok" /\ builder.acc_sensitivity # None
       THEN LET byte == set_bits(regs[ACCEL_CONFIG_ADDR],
                                 ACCEL_CONFIG_FS_SEL.bit,
                                 ACCEL_CONFIG_FS_SEL.length,
                                 builder.acc_sensitivity[1])
            IN  /\ regs' = [regs EXCEPT ![ACCEL_CONFIG_ADDR] = byte]
                /\ log' = Append(log, WriteEntry(result'.v.slave_addr,
                                                 <<ACCEL_CONFIG_ADDR, byte>>,
                                                 "none"))
       ELSE UNCHANGED <<regs, log>>
    /\ UNCHANGED <<builder, ncalls, thr>>

Build ==
    /\ Building
    /\ result' = build(builder)
    /\ dev' = IF result'.kind = "Ok" THEN Some(result'.v) ELSE None
    /\ call' = [op |-> "build", arg |-> Unit]
    /\ UNCHANGED <<builder, regs, log, ncalls, thr>>

InitBuild ==
    /\ builder = Mpu6050Builder_new
    /\ dev = None
    /\ regs \in {PowerOnRegs, StaleRegs}
    /\ call = NoCall
    /\ log = <<>>
    /\ result = Ok(Unit)
    /\ ncalls = 0
    /\ thr = [t \in Threads |-> Idle]

NextBuild ==
    \/ BuilderI2c
    \/ BuilderSlaveAddr
    \/ BuilderAccSensitivity
    \/ BuilderGyroSensitivity
    \/ BuilderGyroOffset
    \/ BuilderAccOffset
    \/ Build

SpecBuild == InitBuild /\ [][NextBuild]_vars

(***************************************************************************)
(* SpecInit: one call of init on a freshly built Device, the sensor        *)
(* reporting any identity byte.                                            *)
(***************************************************************************)
BuiltFromAny ==
    {[Mpu6050Builder_new EXCEPT !.i2c = Some(h), !.acc_sensitivity = a,
                                !.gyro_sensitivity = g] :
        h \in BusHandles,
        a \in {None} \cup {Some(r) : r \in AccelRange},
        g \in {None} \cup {Some(r) : r \in GyroRange}}

InitInit ==
    /\ builder \in BuiltFromAny
    /\ dev = Some(build(builder).v)
    /\ regs \in {PowerOnRegs, StaleRegs}
    /\ call = [op |-> "build", arg |-> Unit]
    /\ log = <<>>
    /\ result = build(builder)
    /\ ncalls = 0
    /\ thr = [t \in Threads |-> Idle]

CallInitAny == ncalls = 0 /\ CallInitWith(Byte)

SpecInit == InitInit /\ [][CallInitAny]_vars

(***************************************************************************)
(* SpecBits: one call of write_bits or write_bit on a reliable bus, for    *)
(* every register content, field location and data value.                  *)
(***************************************************************************)
InitBits ==
    /\ builder = [Mpu6050Builder_new EXCEPT !.i2c = Some("i2c-1")]
    /\ dev = Some(build(builder).v)
    /\ \E b \in Byte : regs = [r \in WritableRegs |-> b]
    /\ call = [op |-> "build", arg |-> Unit]
    /\ log = <<>>
    /\ result = build(builder)
    /\ ncalls = 0
    /\ thr = [t \in Threads |-> Idle]

CallWriteBits ==
    /\ ncalls = 0
    /\ \E start_bit \in 0..7, data \in Byte :
         \E length \in 0..(start_bit + 1) :
            Finish("write_bits", <<ACCEL_CONFIG_ADDR, start_bit, length, data>>,
                   write_bits(Ctx(0, "none", NoHw), ACCEL_CONFIG_ADDR,
                              start_bit, length, data))

CallWriteBit ==
    /\ ncalls = 0
    /\ \E reg \in {ACCEL_CONFIG_ADDR, PWR_MGMT_1_ADDR}, bit_n \in 0..7,
          enable \in BOOLEAN :
         Finish("write_bit", <<reg, bit_n, enable>>,
                write_bit(Ctx(0, "none", NoHw), reg, bit_n, enable))

NextBits ==
    \/ CallWriteBits
    \/ CallWriteBit

SpecBits == InitBits /\ [][NextBits]_vars

(***************************************************************************)
(* SpecDecode: read_word_2c applied to every pair of bytes.                *)
(***************************************************************************)
InitDecode ==
    /\ builder = [Mpu6050Builder_new EXCEPT !.i2c = Some("i2c-1")]
    /\ dev = Some(build(builder).v)
    /\ regs = PowerOnRegs
    /\ call = [op |-> "build", arg |-> Unit]
    /\ log = <<>>
    /\ result = build(builder)
    /\ ncalls = 0
    /\ thr = [t \in Threads |-> Idle]

CallReadWord2c ==
    /\ ncalls = 0
    /\ \E high \in Byte, low \in Byte :
         /\ call' = [op |-> "read_word_2c", arg |-> <<high, low>>]
         /\ result' = Ok(read_word_2c(<<high, low>>))
    /\ ncalls' = 1
    /\ UNCHANGED <<builder, dev, regs, log, thr>>

SpecDecode == InitDecode /\ [][CallReadWord2c]_vars

(***************************************************************************)
(* SpecRace: threads, each driving the same sensor over the shared bus *)
(* with no lock.  A bus transaction is atomic (one step); a bit-field      *)
(* setter is two transactions, and the other thread's transactions may     *)
(* fall between them.  `log` is the bus trace of both threads; a thread    *)
(* records where in it its read (rd) and its write (wr) are.               *)
(***************************************************************************)
RaceCalls ==
    {[op |-> "write_bits", reg |-> ACCEL_CONFIG_ADDR,
      a |-> <<ACCEL_CONFIG_FS_SEL.bit, ACCEL_CONFIG_FS_SEL.length, d>>] :
        d \in {1, 2}}
    \cup
    {[op |-> "write_bits", reg |-> ACCEL_CONFIG_ADDR,
      a |-> <<ACCEL_CONFIG_ACCEL_HPF.bit, ACCEL_CONFIG_ACCEL_HPF.length, 4>>]}
    \cup
    {[op |-> "write_bit", reg |-> ACCEL_CONFIG_ADDR,
      a |-> <<ACCEL_CONFIG_XA_ST, e>>] : e \in BOOLEAN}
    \cup
    {[op |-> "write_bit", reg |-> PWR_MGMT_1_ADDR,
      a |-> <<PWR_MGMT_1_SLEEP, FALSE>>],
     [op |-> "write_byte", reg |-> ACCEL_CONFIG_ADDR, a |-> <<1>>],
     [op |-> "write_byte", reg |-> PWR_MGMT_1_ADDR, a |-> <<0>>]}

\* the method a thread runs, on the registers as its read found them
RunCall(t, c) ==
    CASE thr[t].op = "write_bits" ->
            write_bits(c, thr[t].reg, thr[t].a[1], thr[t].a[2], thr[t].a[3])
      [] thr[t].op = "write_bit" ->
            write_bit(c, thr[t].reg, thr[t].a[1], thr[t].a[2])
      [] OTHER ->
            write_byte(c, thr[t].reg, thr[t].a[1])

RaceStart(t) ==
    /\ thr[t].pc = "idle"
    /\ \E k \in RaceCalls :
         thr' = [thr EXCEPT ![t] =
                    [pc |-> IF k.op = "write_byte" THEN "write" ELSE "read",
                     op |-> k.op, reg |-> k.reg, a |-> k.a, buf |-> 0,
                     rd |-> 0, wr |-> 0]]
    /\ UNCHANGED <<builder, dev, regs, call, log, result, ncalls>>

\* the setter's write_read transaction
RaceRead(t) ==
    /\ thr[t].pc = "read"
    /\ LET c == read_bytes(Ctx(0, "none", NoHw), thr[t].reg, 1)
       IN  /\ log' = log \o c.log
           /\ thr' = [thr EXCEPT ![t].pc = "write", ![t].buf = c.buf[1],
                                 ![t].rd = Len(log) + 1]
    /\ UNCHANGED <<builder, dev, regs, call, result, ncalls>>

\* the call's write transaction: the byte written is the one the method
\* computes from the byte its read returned
RaceWrite(t) ==
    /\ thr[t].pc = "write"
    /\ LET c0 == Ctx(0, "none", NoHw)
           c  == RunCall(t, [c0 EXCEPT !.regs[thr[t].reg] = thr[t].buf])
           w  == c.log[Len(c.log)]
       IN  /\ regs' = [regs EXCEPT ![w.bytes[1]] = w.bytes[2]]
           /\ log' = Append(log, w)
           /\ thr' = [thr EXCEPT ![t].pc = "done", ![t].wr = Len(log) + 1]
    /\ UNCHANGED <<builder, dev, call, result, ncalls>>

InitRace ==
    /\ builder = [Mpu6050Builder_new EXCEPT !.i2c = Some("i2c-1")]
    /\ dev = Some(build(builder).v)
    /\ regs \in {PowerOnRegs, StaleRegs}
    /\ call = [op |-> "build", arg |-> Unit]
    /\ log = <<>>
    /\ result = build(builder)
    /\ ncalls = 0
    /\ thr = [t \in Threads |-> Idle]

NextRace == \E t \in Threads : RaceStart(t) \/ RaceRead(t) \/ RaceWrite(t)

SpecRace == InitRace /\ [][NextRace]_vars

(***************************************************************************)
(* SpecMeasure: one call of get_acc on a Device built with any             *)
(* accelerometer range and offset, the sensor holding any of a set of raw  *)
(* readings.                                                               *)
(***************************************************************************)
\* register pairs (high, low) of one axis: 0, 16384, -1, -32768, 32767, 131
AxisBytes ==
    {<<0, 0>>, <<64, 0>>, <<255, 255>>, <<128, 0>>, <<127, 255>>, <<0, 131>>}

MeasureBlocks == {x \o y \o z : x \in AxisBytes, y \in AxisBytes, z \in AxisBytes}

BuiltFromCalibrated ==
    {[Mpu6050Builder_new EXCEPT !.i2c = Some(h), !.slave_addr = s,
                                !.acc_sensitivity = a, !.acc_offset = o] :
        h \in BusHandles,
        s \in {None, Some(105)},
        a \in {None} \cup {Some(r) : r \in AccelRange},
        o \in {None} \cup {Some(v) : v \in Offsets}}

InitMeasure ==
    /\ builder \in BuiltFromCalibrated
    /\ dev = Some(build(builder).v)
    /\ regs = PowerOnRegs
    /\ call = [op |-> "build", arg |-> Unit]
    /\ log = <<>>
    /\ result = build(builder)
    /\ ncalls = 0
    /\ thr = [t \in Threads |-> Idle]

MeasureGetAcc ==
    /\ ncalls = 0
    /\ \E fl \in Failures(1), blk \in MeasureBlocks :
         Finish("get_acc", Unit,
                get_acc(Ctx(fl[1], fl[2], HwBlock(ACC_REGX_H, blk))))

SpecMeasure == InitMeasure /\ [][MeasureGetAcc]_vars

(***************************************************************************)
(* SpecConfig: a successful init, then configuration calls on a bus that   *)
(* never fails.                                                            *)
(***************************************************************************)
CanConfigure == dev # None /\ 0 < ncalls /\ ncalls < MaxConfigCalls

\* the call context on a reliable bus
Reliable == Ctx(0, "none", NoHw)

ConfigInit ==
    /\ dev # None /\ ncalls = 0
    /\ Finish("init", Unit, init(Ctx(0, "none", WHOAMI :> DEFAULT_SLAVE_ADDR)))

ConfigSetAccelRange ==
    /\ CanConfigure
    /\ \E range \in AccelRange :
         Finish("set_accel_range", range, set_accel_range(Reliable, range))

ConfigSetGyroRange ==
    /\ CanConfigure
    /\ \E range \in GyroRange :
         Finish("set_gyro_range", range, set_gyro_range(Reliable, range))

ConfigSetAccelHpf ==
    /\ CanConfigure
    /\ \E mode \in ACCEL_HPF :
         Finish("set_accel_hpf", mode, set_accel_hpf(Reliable, mode))

ConfigSetAccelXSelfTest ==
    /\ CanConfigure
    /\ \E enable \in BOOLEAN :
         Finish("set_accel_x_self_test", enable,
                set_accel_x_self_test(Reliable, enable))

ConfigSetAccelYSelfTest ==
    /\ CanConfigure
    /\ \E enable \in BOOLEAN :
         Finish("set_accel_y_self_test", enable,
                set_accel_y_self_test(Reliable, enable))

ConfigSetAccelZSelfTest ==
    /\ CanConfigure
    /\ \E enable \in BOOLEAN :
         Finish("set_accel_z_self_test", enable,
                set_accel_z_self_test(Reliable, enable))

ConfigSetSleepEnabled ==
    /\ CanConfigure
    /\ \E enable \in BOOLEAN :
         Finish("set_sleep_enabled", enable,
                set_sleep_enabled(Reliable, enable))

ConfigSetTempEnabled ==
    /\ CanConfigure
    /\ \E enable \in BOOLEAN :
         Finish("set_temp_enabled", enable, set_temp_enabled(Reliable, enable))

ConfigSetClockSource ==
    /\ CanConfigure
    /\ \E source \in CLKSEL :
         Finish("set_clock_source", source, set_clock_source(Reliable, source))

ConfigSetupMotionDetection ==
    /\ CanConfigure
    /\ Finish("setup_motion_detection", Unit, setup_motion_detection(Reliable))

InitConfig ==
    /\ builder \in BuiltFrom
    /\ dev = Some(build(builder).v)
    /\ regs \in {PowerOnRegs, StaleRegs}
    /\ call = [op |-> "build", arg |-> Unit]
    /\ log = <<>>
    /\ result = build(builder)
    /\ ncalls = 0
    /\ thr = [t \in Threads |-> Idle]

NextConfig ==
    \/ ConfigInit
    \/ ConfigSetAccelRange
    \/ ConfigSetGyroRange
    \/ ConfigSetAccelHpf
    \/ ConfigSetAccelXSelfTest
    \/ ConfigSetAccelYSelfTest
    \/ ConfigSetAccelZSelfTest
    \/ ConfigSetSleepEnabled
    \/ ConfigSetTempEnabled
    \/ ConfigSetClockSource
    \/ ConfigSetupMotionDetection

SpecConfig == InitConfig /\ [][NextConfig]_vars

(***************************************************************************)
(* Properties.                                                             *)
(***************************************************************************)
Dev == dev[1]
Succeeded == result.kind = "Ok"
IsWrite(e, reg) == e.t = "write" /\ e.bytes[1] = reg
IsRead(e, reg) == e.t = "write_read" /\ e.bytes = <<reg>>
Field(byte, f) == get_bits(byte, f.bit, f.length)
\* the identity read returned the expected value
GoodIdRead(e) ==
    IsRead(e, WHOAMI) /\ e.err = "none" /\ e.rd = <<DEFAULT_SLAVE_ADDR>>

\* C1: a successful init issues, in this order, the wake write to 0x6B, the
\* 100 ms delay, the read of identity register 0x75, the accelerometer range
\* write (+-2g), the gyro range write (+-250 deg/s) and the high-pass-filter
\* reset write, each of the three being the register's read followed by its
\* write; and no init, successful or not, writes a range or filter register
\* before the identity read has returned the expected value.
C1_InitOrder ==
    /\ (call.op = "init" /\ Succeeded) =>
          /\ Len(log) = 9
          /\ log[1] = WriteEntry(Dev.slave_addr, <<107, 1>>, "none")
          /\ log[2] = DelayEntry(100)
          /\ log[3] = ReadEntry(Dev.slave_addr, <<117>>, <<104>>, "none")
          /\ IsRead(log[4], 28) /\ IsWrite(log[5], 28)
          /\ Field(log[5].bytes[2], ACCEL_CONFIG_FS_SEL) = G2
          /\ IsRead(log[6], 27) /\ IsWrite(log[7], 27)
          /\ Field(log[7].bytes[2], GYRO_CONFIG_FS_SEL) = D250
          /\ IsRead(log[8], 28) /\ IsWrite(log[9], 28)
          /\ Field(log[9].bytes[2], ACCEL_CONFIG_ACCEL_HPF) = ACCEL_HPF_RESET
          /\ \A i \in 4..9 : log[i].err = "none"
    /\ call.op = "init" =>
          \A i \in DOMAIN log :
             (IsWrite(log[i], 28) \/ IsWrite(log[i], 27)) =>
                \E j \in 1..(i - 1) : GoodIdRead(log[j])

C1_Witness ==
    /\ call.op = "init" /\ Succeeded /\ ncalls = 2
    /\ regs[MOT_THR] = 10

\* C2: when every bus transaction succeeds and the identity read of init
\* returns a byte b other than 0x68, init fails with InvalidChipId carrying
\* exactly b, and with no other error kind.
C2_IdentityMismatch ==
    call.op = "init" =>
       \A i \in DOMAIN log :
          ( /\ \A j \in DOMAIN log : log[j].err = "none"
            /\ IsRead(log[i], WHOAMI)
            /\ log[i].rd[1] # 104 ) =>
             /\ result.kind = "InvalidChipId"
             /\ result.v = log[i].rd[1]

C2_Witness ==
    /\ call.op = "init"
    /\ result.kind = "InvalidChipId"
    /\ result.v = 117
    /\ \A j \in DOMAIN log : log[j].err = "none"

\* C3: after a successful set_accel_range(r) (set_gyro_range(r)) the range
\* field of register 0x1C (0x1B) holds the code of r and the cached
\* accelerometer (gyro) sensitivity is the divisor of r; a measurement that
\* follows is scaled with that divisor.
C3_State ==
    /\ (call.op = "set_accel_range" /\ Succeeded) =>
          /\ Field(regs[28], ACCEL_CONFIG_FS_SEL) = call.arg
          /\ Dev.acc_sensitivity = ACCEL_SENS[call.arg + 1]
    /\ (call.op = "set_gyro_range" /\ Succeeded) =>
          /\ Field(regs[27], GYRO_CONFIG_FS_SEL) = call.arg
          /\ Dev.gyro_sensitivity = GYRO_SENS[call.arg + 1]

RawAxis(e, i) == <<read_word_2c(SubSeq(e.rd, 2 * i - 1, 2 * i)), 1>>

C3_Step ==
    /\ ( /\ call.op = "set_accel_range" /\ Succeeded
         /\ call'.op = "get_acc" /\ result'.kind = "Ok" ) =>
          \A i \in 1..3 :
             result'.v[i] = RatAdd(RatDiv(RawAxis(log'[1], i),
                                          ACCEL_SENS[call.arg + 1]),
                                   Dev.acc_offset[i])
    /\ ( /\ call.op = "set_gyro_range" /\ Succeeded
         /\ call'.op = "get_gyro" /\ result'.kind = "Ok" ) =>
          \A i \in 1..3 :
             /\ result'.v[i].pi180 = RatDiv(RawAxis(log'[1], i),
                                            GYRO_SENS[call.arg + 1])
             /\ result'.v[i].plus = Dev.gyro_offset[i]

C3_RangeSetters == [](C3_State) /\ [][C3_Step]_vars

C3_Witness ==
    /\ call.op = "get_acc" /\ Succeeded
    /\ Dev.acc_sensitivity = ACCEL_SENS[3]
    /\ Field(regs[28], ACCEL_CONFIG_FS_SEL) = 2
    /\ result.v[1] = <<4, 1>>

\* C4: a successful setup_motion_detection issues exactly seven whole-byte
\* writes and no read: 0x6B<-0x00, 0x37<-0x20, 0x1C<-0x01, 0x1F<-10,
\* 0x20<-40, 0x69<-0x15, 0x38<-0x40, in this order; the interrupt enable
\* write (0x38) is only ever the seventh, after the six others succeeded.
C4_MotionSequence ==
    /\ (call.op = "setup_motion_detection" /\ Succeeded) =>
          log = << WriteEntry(Dev.slave_addr, <<107, 0>>, "none"),
                   WriteEntry(Dev.slave_addr, <<55, 32>>, "none"),
                   WriteEntry(Dev.slave_addr, <<28, 1>>, "none"),
                   WriteEntry(Dev.slave_addr, <<31, 10>>, "none"),
                   WriteEntry(Dev.slave_addr, <<32, 40>>, "none"),
                   WriteEntry(Dev.slave_addr, <<105, 21>>, "none"),
                   WriteEntry(Dev.slave_addr, <<56, 64>>, "none") >>
    /\ call.op = "setup_motion_detection" =>
          \A i \in DOMAIN log :
             IsWrite(log[i], 56) =>
                /\ i = 7
                /\ log[i].bytes = <<56, 64>>
                /\ \A j \in 1..6 : log[j].err = "none"

C4_Witness ==
    /\ call.op = "setup_motion_detection" /\ Succeeded
    /\ regs[56] = 64 /\ regs[31] = 10 /\ regs[32] = 40 /\ regs[105] = 21
    /\ regs[28] = 1 /\ regs[55] = 32 /\ regs[107] = 0

\* bits first..last of a byte are left as they are in `old`
SameBits(new, old, first, last) ==
    \A n \in first..last : get_bit(new, n) = get_bit(old, n)

\* the field [start-length+1 .. start] of `new` holds the low bits of data,
\* every other bit is as in `old`
FieldWritten(new, old, start, length, data) ==
    /\ \A k \in 0..(length - 1) :
          get_bit(new, start - length + 1 + k) = get_bit(data, k)
    /\ SameBits(new, old, 0, start - length)
    /\ SameBits(new, old, start + 1, 7)

\* one register read followed by one register write, both of `reg`
ReadThenWrite(l, reg, old, new, addr) ==
    l = << ReadEntry(addr, <<reg>>, <<old>>, "none"),
           WriteEntry(addr, <<reg, new>>, "none") >>

\* C5: a successful write_bits (write_bit) on a bus that stores what is
\* written sets the field to the low `length` bits of the data (the bit to
\* `enable`), leaves every bit of the register outside the field and every
\* other register as before, and issues exactly one register read followed
\* by exactly one register write.
C5_Step ==
    /\ (call'.op = "write_bits" /\ result'.kind = "Ok") =>
          LET reg == call'.arg[1]
          IN  /\ FieldWritten(regs'[reg], regs[reg],
                              call'.arg[2], call'.arg[3], call'.arg[4])
              /\ \A r \in WritableRegs \ {reg} : regs'[r] = regs[r]
              /\ ReadThenWrite(log', reg, regs[reg], regs'[reg],
                               Dev.slave_addr)
    /\ (call'.op = "write_bit" /\ result'.kind = "Ok") =>
          LET reg == call'.arg[1]
          IN  /\ FieldWritten(regs'[reg], regs[reg], call'.arg[2], 1,
                              IF call'.arg[3] THEN 1 ELSE 0)
              /\ \A r \in WritableRegs \ {reg} : regs'[r] = regs[r]
              /\ ReadThenWrite(log', reg, regs[reg], regs'[reg],
                               Dev.slave_addr)

C5_BitFieldFrame == [][C5_Step]_vars

C5_Witness ==
    /\ call.op = "write_bits" /\ Succeeded
    /\ call.arg = <<28, 4, 2, 253>>
    /\ regs[28] = 175
    /\ regs[107] = 167

\* C6: when another thread's write to the same register falls between the
\* read and the write of a bit-field setter, and the setter's write is the
\* last, the register holds the setter's field on top of the byte the
\* setter read: whatever the other thread wrote, a field or a whole byte,
\* is gone.
Done(t) == thr[t].pc = "done"
IsSetter(t) == thr[t].op \in {"write_bits", "write_bit"}
LastWriter(t) ==
    \A v \in Threads \ {t} :
       (thr[v].reg = thr[t].reg /\ thr[v].wr > 0) => thr[v].wr < thr[t].wr
Between(u, t) ==
    /\ thr[u].reg = thr[t].reg
    /\ thr[t].rd < thr[u].wr /\ thr[u].wr < thr[t].wr
SetterField(t) ==
    IF thr[t].op = "write_bits"
    THEN [start |-> thr[t].a[1], length |-> thr[t].a[2], data |-> thr[t].a[3]]
    ELSE [start |-> thr[t].a[1], length |-> 1,
          data |-> IF thr[t].a[2] THEN 1 ELSE 0]

C6_LostUpdate ==
    \A t \in Threads, u \in Threads :
       ( /\ t # u /\ Done(t) /\ Done(u) /\ IsSetter(t)
         /\ Between(u, t) /\ LastWriter(t) ) =>
          FieldWritten(regs[thr[t].reg], thr[t].buf, SetterField(t).start,
                       SetterField(t).length, SetterField(t).data)

\* thread 1 set the high-pass-filter field from a stale byte; thread 2's
\* range update and thread 3's whole-byte write fell in between and are lost
C6_Witness ==
    /\ \A t \in Threads : Done(t) /\ thr[t].reg = ACCEL_CONFIG_ADDR
    /\ thr[1].op = "write_bits" /\ thr[1].a[1] = ACCEL_CONFIG_ACCEL_HPF.bit
    /\ thr[2].op = "write_bits" /\ thr[2].a[1] = ACCEL_CONFIG_FS_SEL.bit
    /\ thr[3].op = "write_byte"
    /\ Between(2, 1) /\ Between(3, 1) /\ LastWriter(1)
    /\ thr[2].rd < thr[1].rd
    /\ Field(regs[28], ACCEL_CONFIG_FS_SEL) # thr[2].a[3]
    /\ regs[28] # thr[3].a[1]
    /\ Field(regs[28], ACCEL_CONFIG_ACCEL_HPF) = thr[1].a[3]

\* C7: in every Device method, when a bus transaction fails the method
\* returns that transaction's transport error wrapped in I2c, and the failed
\* transaction is the last operation it issues: nothing follows it and it is
\* not issued again; a method returns I2c only for a transaction that failed.
C7_FailFast ==
    call.op \notin {"none", "build"} =>
       /\ \A i \in DOMAIN log :
             log[i].err # "none" =>
                /\ i = Len(log)
                /\ result.kind = "I2c"
                /\ result.e = log[i].err
       /\ result.kind = "I2c" =>
             /\ Len(log) > 0
             /\ log[Len(log)].err = result.e

\* init's last transaction, the filter write, fails
C7_Witness ==
    /\ call.op = "init"
    /\ result.kind = "I2c" /\ result.e = "ArbitrationLoss"
    /\ Len(log) = 9
    /\ \A i \in 1..8 : log[i].err = "none"
    /\ IsWrite(log[9], 28)

\* C8: read_word_2c maps the bytes (high, low), word = (high << 8) | low,
\* to word when word < 0x8000 and to word - 0x10000 otherwise, for all
\* 65536 inputs; the result lies in -32768..32767.
C8_TwosComplement ==
    call.op = "read_word_2c" =>
       LET word == call.arg[1] * 256 + call.arg[2]
       IN  /\ result.v = IF word < 32768 THEN word ELSE word - 65536
           /\ result.v \in -32768..32767
           /\ call.arg = <<0, 0>> => result.v = 0
           /\ call.arg = <<127, 255>> => result.v = 32767
           /\ call.arg = <<128, 0>> => result.v = -32768
           /\ call.arg = <<255, 255>> => result.v = -1

C8_Witness ==
    /\ call.op = "read_word_2c"
    /\ call.arg = <<128, 0>>
    /\ result.v = -32768

\* C9: set_temp_enabled(e) writes TEMP_DIS of register 0x6B as NOT e and
\* leaves the other bits of 0x6B and the other registers as they were;
\* get_temp_enabled returns true exactly when TEMP_DIS is 0; so
\* get_temp_enabled after a successful set_temp_enabled(e) returns e.
C9_State ==
    /\ (call.op = "set_temp_enabled" /\ Succeeded) =>
          get_bit(regs[107], PWR_MGMT_1_TEMP_DIS) = IF call.arg THEN 0 ELSE 1
    /\ (call.op = "get_temp_enabled" /\ Succeeded) =>
          result.v = (get_bit(regs[107], PWR_MGMT_1_TEMP_DIS) = 0)

C9_Step ==
    /\ ( /\ call.op = "set_temp_enabled" /\ Succeeded
         /\ call'.op = "get_temp_enabled" /\ result'.kind = "Ok" ) =>
          result'.v = call.arg
    /\ (call'.op = "set_temp_enabled" /\ result'.kind = "Ok") =>
          /\ SameBits(regs'[107], regs[107], 0, 2)
          /\ SameBits(regs'[107], regs[107], 4, 7)
          /\ \A r \in WritableRegs \ {107} : regs'[r] = regs[r]

C9_TempPolarity == [](C9_State) /\ [][C9_Step]_vars

\* the sensor powered on (0x40), set_temp_enabled(false), get_temp_enabled
C9_Witness ==
    /\ call.op = "get_temp_enabled" /\ Succeeded
    /\ ncalls = 2
    /\ regs[107] = 72
    /\ result.v = FALSE

\* C10: build fails with NoI2cDeviceProvided exactly when no bus handle was
\* supplied, whatever the other fields hold and in whatever order the
\* setters were called; with a bus handle it succeeds.
C10_MissingBus ==
    call.op = "build" =>
       /\ (result.kind = "NoI2cDeviceProvided") <=> (builder.i2c = None)
       /\ builder.i2c # None => (result.kind = "Ok" /\ dev # None)
       /\ builder.i2c = None => dev = None

\* every optional field but the bus was set, and build failed
C10_Witness ==
    /\ call.op = "build"
    /\ result.kind = "NoI2cDeviceProvided"
    /\ builder.slave_addr # None /\ builder.acc_sensitivity # None
    /\ builder.gyro_sensitivity # None /\ builder.gyro_offset # None
    /\ builder.acc_offset # None

\* C11: a Device built from a builder given only a bus has slave address
\* 0x68, the divisors of +-2g and +-250 deg/s and zero offsets; for every
\* subset of optional fields set, each set field of the Device holds the
\* supplied value (for a range, its divisor) and each unset field its default.
C11_BuilderDefaults ==
    (call.op = "build" /\ Succeeded) =>
       /\ Dev.i2c = builder.i2c[1]
       /\ Dev.slave_addr =
             IF builder.slave_addr = None THEN 104 ELSE builder.slave_addr[1]
       /\ Dev.acc_sensitivity =
             IF builder.acc_sensitivity = None THEN <<16384, 1>>
             ELSE AccelRange_sensitivity(builder.acc_sensitivity[1])
       /\ Dev.gyro_sensitivity =
             IF builder.gyro_sensitivity = None THEN <<131, 1>>
             ELSE GyroRange_sensitivity(builder.gyro_sensitivity[1])
       /\ Dev.gyro_offset =
             IF builder.gyro_offset = None
             THEN << <<0, 1>>, <<0, 1>>, <<0, 1>> >>
             ELSE builder.gyro_offset[1]
       /\ Dev.acc_offset =
             IF builder.acc_offset = None
             THEN << <<0, 1>>, <<0, 1>>, <<0, 1>> >>
             ELSE builder.acc_offset[1]
       /\ AccelRange_sensitivity(G2) = <<16384, 1>>
       /\ GyroRange_sensitivity(D250) = <<131, 1>>

\* slave address, accelerometer range and gyro offset set, the rest unset
C11_Witness ==
    /\ call.op = "build" /\ Succeeded
    /\ builder.slave_addr = Some(105) /\ Dev.slave_addr = 105
    /\ builder.acc_sensitivity = Some(2) /\ Dev.acc_sensitivity = <<4096, 1>>
    /\ builder.gyro_sensitivity = None /\ Dev.gyro_sensitivity = <<131, 1>>
    /\ builder.gyro_offset # None /\ Dev.gyro_offset # Vec3A_ZERO
    /\ builder.acc_offset = None /\ Dev.acc_offset = Vec3A_ZERO

\* C12: the builder's setters and build issue no bus transaction and leave
\* the sensor's registers as they were: a range chosen in the builder is
\* held in the Device's cached sensitivity only, not in the range register.
C12_Step ==
    /\ regs' = regs
    /\ log' = log

C12_BuildNoBusIo == [](log = <<>>) /\ [][C12_Step]_vars

\* +-16g and +-1000 deg/s chosen; the range registers still hold code 0
C12_Witness ==
    /\ call.op = "build" /\ Succeeded
    /\ builder.acc_sensitivity = Some(3) /\ Dev.acc_sensitivity = <<2048, 1>>
    /\ builder.gyro_sensitivity = Some(2) /\ Dev.gyro_sensitivity = <<164, 5>>
    /\ Field(regs[28], ACCEL_CONFIG_FS_SEL) = 0
    /\ Field(regs[27], GYRO_CONFIG_FS_SEL) = 0
    /\ log = <<>>

\* the two's-complement value of the big-endian register pair of axis i
AxisRaw(rd, i) ==
    LET word == rd[2 * i - 1] * 256 + rd[2 * i]
    IN  IF word < 32768 THEN word ELSE word - 65536

\* C13: a successful get_acc issues one read of the 6 registers from 0x3B
\* and returns, per axis, raw / acc_sensitivity + acc_offset, raw the
\* two's-complement value of the axis's big-endian pair and the offset added
\* after the division; raw (16384, 0, 0) with divisor 16384 and zero offset
\* gives (1, 0, 0).
C13_AccScaling ==
    (call.op = "get_acc" /\ Succeeded) =>
       /\ Len(log) = 1
       /\ IsRead(log[1], 59)
       /\ Len(log[1].rd) = 6
       /\ \A i \in 1..3 :
             result.v[i] = RatAdd(RatDiv(<<AxisRaw(log[1].rd, i), 1>>,
                                         Dev.acc_sensitivity),
                                  Dev.acc_offset[i])
       /\ ( /\ log[1].rd = <<64, 0, 0, 0, 0, 0>>
            /\ Dev.acc_sensitivity = <<16384, 1>>
            /\ Dev.acc_offset = Vec3A_ZERO ) =>
             result.v = << <<1, 1>>, <<0, 1>>, <<0, 1>> >>

\* raw (-32768, 16384, 32767) at +-8g with offset (1/2, 0, -1/4)
C13_Witness ==
    /\ call.op = "get_acc" /\ Succeeded
    /\ log[1].rd = <<128, 0, 64, 0, 127, 255>>
    /\ Dev.acc_sensitivity = <<4096, 1>>
    /\ Dev.acc_offset = << <<1, 2>>, <<0, 1>>, <<-1, 4>> >>
    /\ result.v = << <<-15, 2>>, <<4, 1>>, <<31743, 4096>> >>

\* C14: when init fails with InvalidChipId, what it issued is the wake write
\* to 0x6B, the 100 ms delay and the identity read, and nothing after it;
\* register 0x6B holds the wake value, every other register (0x1C and 0x1B
\* among them) is as before, and the Device's slave address, cached
\* sensitivities and offsets are as before the call.
C14_Step ==
    (call'.op = "init" /\ result'.kind = "InvalidChipId") =>
       /\ log' = << WriteEntry(Dev.slave_addr, <<107, 1>>, "none"),
                    DelayEntry(100),
                    ReadEntry(Dev.slave_addr, <<117>>, <<result'.v>>, "none") >>
       /\ regs'[107] = 1
       /\ \A r \in WritableRegs \ {107} : regs'[r] = regs[r]
       /\ dev' = dev

C14_MismatchNoRollback == [][C14_Step]_vars

\* a Device built for +-16g on a sensor left with every register at 0xFF
C14_Witness ==
    /\ call.op = "init" /\ result.kind = "InvalidChipId"
    /\ regs[107] = 1 /\ regs[28] = 255 /\ regs[27] = 255
    /\ builder.acc_sensitivity = Some(3)
    /\ Dev.acc_sensitivity = <<2048, 1>>
    /\ Len(log) = 3

\* the fixed sequence of setup_motion_detection: <<register, value>>
MotionWrites ==
    << <<107, 0>>, <<55, 32>>, <<28, 1>>, <<31, 10>>, <<32, 40>>, <<105, 21>>,
       <<56, 64>> >>

\* C15: if the k-th write of setup_motion_detection fails, the call returns
\* that error, the k-1 earlier writes of the fixed sequence were issued in
\* order and are in effect, no later write is issued, and every register
\* holds what the last successful write to it left, or its earlier value;
\* so 0x38 <- 0x40 is written only after the six other writes succeeded.
C15_Step ==
    call'.op = "setup_motion_detection" =>
       \A k \in DOMAIN log' :
          log'[k].err # "none" =>
             /\ k \in 1..7
             /\ k = Len(log')
             /\ result'.kind = "I2c" /\ result'.e = log'[k].err
             /\ \A i \in 1..k :
                   /\ log'[i].t = "write"
                   /\ log'[i].addr = Dev.slave_addr
                   /\ log'[i].bytes = MotionWrites[i]
                   /\ i < k => log'[i].err = "none"
             /\ \A r \in WritableRegs :
                   regs'[r] =
                      IF \E i \in 1..(k - 1) : MotionWrites[i][1] = r
                      THEN MotionWrites[CHOOSE i \in 1..(k - 1) :
                                           MotionWrites[i][1] = r][2]
                      ELSE regs[r]
             /\ regs'[56] = regs[56]
             /\ dev' = dev

C15_MotionPartialFailure == [][C15_Step]_vars

\* the threshold write (the fourth) failed on a sensor left at 0xFF
C15_Witness ==
    /\ call.op = "setup_motion_detection"
    /\ result.kind = "I2c" /\ result.e = "Nack"
    /\ Len(log) = 4 /\ IsWrite(log[4], 31)
    /\ regs[107] = 0 /\ regs[55] = 32 /\ regs[28] = 1
    /\ regs[31] = 255 /\ regs[32] = 255 /\ regs[105] = 255 /\ regs[56] = 255

\* C16: after a successful init, whatever ranges the Device was built with
\* and whatever the registers held, the range fields of 0x1C and 0x1B hold
\* the codes of +-2g and +-250 deg/s, the high-pass-filter field of 0x1C the
\* reset mode, and the cached sensitivities are the divisors of +-2g and
\* +-250 deg/s.
C16_InitOverridesRanges ==
    (call.op = "init" /\ Succeeded) =>
       /\ Field(regs[28], ACCEL_CONFIG_FS_SEL) = G2
       /\ Field(regs[27], GYRO_CONFIG_FS_SEL) = D250
       /\ Field(regs[28], ACCEL_CONFIG_ACCEL_HPF) = ACCEL_HPF_RESET
       /\ Dev.acc_sensitivity = <<16384, 1>>
       /\ Dev.gyro_sensitivity = <<131, 1>>
       /\ Dev.slave_addr = build(builder).v.slave_addr
       /\ Dev.acc_offset = build(builder).v.acc_offset
       /\ Dev.gyro_offset = build(builder).v.gyro_offset

\* built for +-16g and +-2000 deg/s on a sensor left with 0xFF everywhere
C16_Witness ==
    /\ call.op = "init" /\ Succeeded
    /\ builder.acc_sensitivity = Some(3)
    /\ builder.gyro_sensitivity = Some(3)
    /\ regs[28] = 224 /\ regs[27] = 231
    /\ Dev.acc_sensitivity = <<16384, 1>>
    /\ Dev.gyro_sensitivity = <<131, 1>>

\* C17: in every state after a successful init and any sequence of
\* successful configuration calls on a reliable bus, the cached accelerometer
\* sensitivity is the divisor of the range in the range field of 0x1C, and
\* the cached gyro sensitivity the divisor of the range in that of 0x1B.
C17_CacheMatchesRegister ==
    (ncalls > 0 /\ Succeeded) =>
       /\ Dev.acc_sensitivity =
             AccelRange_sensitivity(Field(regs[28], ACCEL_CONFIG_FS_SEL))
       /\ Dev.gyro_sensitivity =
             GyroRange_sensitivity(Field(regs[27], GYRO_CONFIG_FS_SEL))

\* C18: a successful reset_device issues one read of register 0x6B, one
\* write of 0x6B with the reset bit set and the other bits as read (the sleep
\* bit among them), then the 100 ms delay, and nothing else: no identity
\* read, no range write; whether it succeeds or fails and whether or not the
\* sensor returns its registers to their power-on values, the Device's
\* cached sensitivities and offsets are as before.
C18_Step ==
    call'.op = "reset_device" =>
       /\ dev' = dev
       /\ \A i \in DOMAIN log' :
             \/ IsRead(log'[i], 107)
             \/ IsWrite(log'[i], 107)
             \/ log'[i] = DelayEntry(100)
       /\ result'.kind = "Ok" =>
             /\ Len(log') = 3
             /\ log'[1] = ReadEntry(Dev.slave_addr, <<107>>, <<regs[107]>>,
                                    "none")
             /\ IsWrite(log'[2], 107)
             /\ log'[2].err = "none" /\ log'[2].addr = Dev.slave_addr
             /\ get_bit(log'[2].bytes[2], 7) = 1
             /\ SameBits(log'[2].bytes[2], regs[107], 0, 6)
             /\ log'[3] = DelayEntry(100)
             /\ regs' \in {PowerOnRegs,
                           [regs EXCEPT ![107] = log'[2].bytes[2]]}

C18_ResetDevice == [][C18_Step]_vars

\* the sensor went back to its power-on registers (asleep, +-2g) under a
\* Device that still caches the +-16g divisor
C18_Witness ==
    /\ call.op = "reset_device" /\ Succeeded
    /\ log[1].rd = <<255>>
    /\ regs = PowerOnRegs
    /\ get_bit(regs[107], PWR_MGMT_1_SLEEP) = 1
    /\ Dev.acc_sensitivity = <<2048, 1>>
    /\ Field(regs[28], ACCEL_CONFIG_FS_SEL) = 0

\* C19: when set_accel_range or set_gyro_range returns an error, whether its
\* register read or its register write failed, the Device is as before the
\* call; the cached sensitivity changes only in a call whose register write
\* succeeded.
C19_Step ==
    /\ ( /\ call'.op \in {"set_accel_range", "set_gyro_range"}
         /\ result'.kind # "Ok" ) =>
          dev' = dev
    /\ ( /\ call'.op \in {"set_accel_range", "set_gyro_range"}
         /\ dev' # dev ) =>
          /\ Len(log') = 2
          /\ IsWrite(log'[2], IF call'.op = "set_accel_range" THEN 28 ELSE 27)
          /\ log'[2].err = "none"
          /\ result'.kind = "Ok"

C19_SetterFailureKeepsCache == [][C19_Step]_vars

\* set_accel_range(+-16g) whose register write failed; the cache is +-2g's
C19_Witness ==
    /\ call.op = "set_accel_range" /\ call.arg = 3
    /\ result.kind = "I2c"
    /\ Len(log) = 2 /\ IsWrite(log[2], 28) /\ log[2].err # "none"
    /\ Dev.acc_sensitivity = <<16384, 1>>

\* the measurement and query accessors
Accessors ==
    {"get_acc", "get_gyro", "get_temp", "get_acc_angles",
     "get_motion_detected", "get_clock_source", "get_accel_hpf",
     "get_gyro_range", "get_accel_range", "get_sleep_enabled",
     "get_temp_enabled", "get_accel_x_self_test", "get_accel_y_self_test",
     "get_accel_z_self_test"}

\* the call issued exactly one read, of n registers from reg on
OneRead(l, reg, n) ==
    /\ Len(l) = 1
    /\ IsRead(l[1], reg)
    /\ l[1].err = "none" => Len(l[1].rd) = n

\* C20: an accessor issues no bus write and leaves the Device's slave
\* address, cached sensitivities and offsets, and the registers, as they
\* were; get_acc and get_gyro issue exactly one read of 6 registers from
\* 0x3B and 0x43, get_temp exactly one read of 2 registers from 0x41.
C20_Step ==
    call'.op \in Accessors =>
       /\ \A i \in DOMAIN log' : log'[i].t = "write_read"
       /\ dev' = dev
       /\ regs' = regs
       /\ call'.op = "get_acc" => OneRead(log', 59, 6)
       /\ call'.op = "get_gyro" => OneRead(log', 67, 6)
       /\ call'.op = "get_temp" => OneRead(log', 65, 2)

C20_AccessorsFrame == [][C20_Step]_vars

\* get_gyro after set_gyro_range(+-1000 deg/s)
C20_Witness ==
    /\ call.op = "get_gyro" /\ Succeeded
    /\ ncalls = 2
    /\ log = <<ReadEntry(Dev.slave_addr, <<67>>, <<0, 131, 240, 0, 0, 1>>,
                         "none")>>
    /\ Dev.gyro_sensitivity = <<164, 5>>
    /\ Field(regs[27], GYRO_CONFIG_FS_SEL) = 2
    /\ regs[28] = 255

====
